---- MODULE Spec2Model ----
(***************************************************************************)
(* A model of the architecture performance model of paul-g/cask            *)
(* (include/Spark/SimpleSpmv.hpp): the design-space enumerator             *)
(* SimpleSpmvArchitectureSpace, called by one caller and by two; the       *)
(* cycle-count policies of FstSpmvArchitecture and                         *)
(* SkipEmptyRowsArchitecture, as functions and loop by loop; the           *)
(* partitioner, the blocker and the metric queries of                      *)
(* SimpleSpmvArchitecture; and the conversion between cask::DokMatrix and  *)
(* cask::CsrMatrix that test/SparseMatrix.cpp exercises.                   *)
(***************************************************************************)
EXTENDS Integers, Sequences, FiniteSets, TLC

VARIABLES
  \* SimpleSpmvArchitectureSpace<T>
  cacheSizeR, inputWidthR, numPipesR, last,
  result,      \* what the latest next() returned: <<>> is nullptr, <<a>> is new T(a)
  calls,       \* next() calls since construction or the latest restart()
  returned,    \* how many of them returned an architecture
  before,      \* what preceded the latest restart(): "never" when there was none
  fresh        \* a second enumerator, constructed anew over the same ranges at the
               \* latest restart() and advanced by the same next() calls since

VARIABLES
  \* one call of the virtual cycleCount(v, size, inputWidth)
  policy,      \* the class of the architecture: "Simple", "Fst", "SkipEmptyRows"
  inputWidth,  \* SimpleSpmvArchitecture::inputWidth, passed to cycleCount
  v,           \* the block's row deltas: v[i] of the code is v[i + 1] here
  size,
  cycles       \* <<>> before the call, <<c>> once cycleCount returned c

VARIABLES
  \* one SimpleSpmvArchitecture (of class policy, with inputWidth above)
  cacheSize, numPipes,
  mat,         \* the matrix stored by preprocess
  partitions,  \* std::vector<BlockingResult>
  input,       \* the matrix the caller holds
  phase,       \* "unbuilt", "constructed", "preprocessed", or "lost" when a call
               \* never returned
  answer       \* what the latest call returned

VARIABLES
  \* do_partition and do_blocking, called one after the other as preprocess does
  partitioned, \* <<>> before do_partition, then what it returned
  blocked,     \* what the latest do_blocking returned
  pipe         \* -1 before do_partition, 0 after it, then the partition blocked last

VARIABLES
  \* two callers of next() on one enumerator, with nothing to keep them apart
  pcOf,        \* where each caller is in doNext: "idle" between calls
  held,        \* each caller's local result: <<>> until new T(...) is evaluated
  out,         \* the architectures returned so far, in the order of the returns
  overlapped   \* whether a call has begun while another was under way

VARIABLES
  \* a DokMatrix taken to a CsrMatrix and back
  dokA,        \* the cask::DokMatrix
  csrA,        \* <<>>, then <<a>> for CsrMatrix a{dokA}
  back         \* <<>>, then <<a.toDok()>>

VARIABLES
  \* one call of cycleCount of Fst or SkipEmptyRows, iteration by iteration
  loop         \* where the call is (pc), its locals i, toread, crtPos, prevtoread
               \* and cycles, and iters: the passes of the do-while for row i

spaceVars ==
  <<cacheSizeR, inputWidthR, numPipesR, last, result, calls, returned, before, fresh>>

cycleVars == <<policy, inputWidth, v, size, cycles>>

archVars == <<cacheSize, numPipes, mat, partitions, input, phase, answer>>

stageVars == <<partitioned, blocked, pipe>>

raceVars == <<pcOf, held, out, overlapped>>

dokVars == <<dokA, csrA, back>>

laterVars == <<stageVars, raceVars, dokVars, loop>>

\* What the steps of each of the later specifications leave alone
exceptStage == <<raceVars, dokVars, loop>>

exceptRace == <<stageVars, dokVars, loop>>

exceptDok == <<stageVars, raceVars, loop>>

exceptLoop == <<stageVars, raceVars, dokVars>>

vars == <<spaceVars, cycleVars, archVars, laterVars>>

(***************************************************************************)
(* Bounds of the enumerated design spaces.                                 *)
(***************************************************************************)
MaxStart == 1
MaxSpan == 2
MaxStep == 2
MaxPastEnd == 2
\* Bounds of the blocks handed to cycleCount
MaxRows == 4
MaxRowNnz == 3
MaxWidth == 3
\* Bounds of the architectures and matrices of the metric queries
MaxParam == 2
MaxOrder == 2
MaxNnz == 2
\* The order of the matrices handed to do_partition
MaxStageOrder == 3
\* The order of the matrices taken to compressed rows and back
MaxDokOrder == 2
\* How many next() calls the two callers make between them
MaxRaceCalls == 5
\* The largest value of a range of the enumerator they share
MaxRaceEnd == 2

(***************************************************************************)
(* spark::utils::Range (Spark/Utils.hpp): an arithmetic range with a       *)
(* cursor crt. The range holds start, start + step, ... up to and          *)
(* including end.                                                          *)
(***************************************************************************)
Range(s, e, t) == [start |-> s, end |-> e, step |-> t, crt |-> s]

\* Range::operator++ : advance the cursor, wrapping to start past the end
RangeInc(r) ==
  IF r.crt + r.step > r.end THEN [r EXCEPT !.crt = r.start]
  ELSE [r EXCEPT !.crt = r.crt + r.step]

at_start(r) == r.crt = r.start

RangeRestart(r) == [r EXCEPT !.crt = r.start]

\* How many values a range holds
RangeLen(r) == ((r.end - r.start) \div r.step) + 1

(***************************************************************************)
(* cycleCount of the three policies                                        *)
(***************************************************************************)
Min(a, b) == IF a < b THEN a ELSE b

\* v[i] of the code
At(rowDeltas, i) == rowDeltas[i + 1]

\* v[i] - (i > 0 ? v[i - 1] : 0)
ToRead(rowDeltas, i) == At(rowDeltas, i) - (IF i > 0 THEN At(rowDeltas, i - 1) ELSE 0)

\* do { toread -= std::min(toread, inputWidth); cycles++; } while (toread > 0);
RECURSIVE FstDrain(_, _, _)
FstDrain(toread, width, c) ==
  LET t == toread - Min(toread, width)
  IN IF t > 0 THEN FstDrain(t, width, c + 1) ELSE c + 1

\* The loop body with while (toread > 0) { ... } in place of do { ... } while
FstRow_WhileLoop(c, toread, width) ==
  IF toread > 0 THEN FstDrain(toread, width, c) ELSE c

\* One pass of the for loop of FstSpmvArchitecture::cycleCount: cycles after the row
FstRow(c, toread, width) == FstDrain(toread, width, c)

RECURSIVE FstRows(_, _, _, _, _)
FstRows(rowDeltas, n, width, i, c) ==
  IF ~(i < n) THEN c
  ELSE FstRows(rowDeltas, n, width, i + 1, FstRow(c, ToRead(rowDeltas, i), width))

FstCycleCount(rowDeltas, n, width) == FstRows(rowDeltas, n, width, 0, 0)

\* SimpleSpmvArchitecture::cycleCount (SimpleSpmv.cpp): the same loop as Fst
SimpleCycleCount(rowDeltas, n, width) == FstRows(rowDeltas, n, width, 0, 0)

\* The do-while of SkipEmptyRowsArchitecture::cycleCount: cycles and crtPos after it
RECURSIVE SkipDrain(_, _, _, _)
SkipDrain(toread, width, crtPos, c) ==
  LET canread == Min(width - crtPos, toread)
      pos == (crtPos + canread) % width
      t == toread - canread
  IN IF t > 0 THEN SkipDrain(t, width, pos, c + 1)
     ELSE [cycles |-> c + 1, crtPos |-> pos]

\* The loop body without the test that skips an empty row after an empty row
SkipRow_NoCollapse(st, toread, width) ==
  LET c == IF toread = 0 THEN st.cycles + 1 ELSE st.cycles
      d == SkipDrain(toread, width, st.crtPos, c)
  IN [cycles |-> d.cycles, crtPos |-> d.crtPos, prevtoread |-> toread]

\* The loop body without the extra cycles++ of an empty row
SkipRow_NoExtraCycle(st, toread, width) ==
  IF toread = 0 /\ st.prevtoread = 0 THEN st
  ELSE
    LET d == SkipDrain(toread, width, st.crtPos, st.cycles)
    IN [cycles |-> d.cycles, crtPos |-> d.crtPos, prevtoread |-> toread]

\* The loop body with a skipped row putting crtPos back to 0
SkipRow_SkipResetsCrtPos(st, toread, width) ==
  IF toread = 0 /\ st.prevtoread = 0 THEN [st EXCEPT !.crtPos = 0]
  ELSE
    LET c == IF toread = 0 THEN st.cycles + 1 ELSE st.cycles
        d == SkipDrain(toread, width, st.crtPos, c)
    IN [cycles |-> d.cycles, crtPos |-> d.crtPos, prevtoread |-> toread]

\* One pass of the for loop of SkipEmptyRowsArchitecture::cycleCount
SkipRow(st, toread, width) ==
  IF toread = 0 /\ st.prevtoread = 0 THEN st
  ELSE
    LET c == IF toread = 0 THEN st.cycles + 1 ELSE st.cycles
        d == SkipDrain(toread, width, st.crtPos, c)
    IN [cycles |-> d.cycles, crtPos |-> d.crtPos, prevtoread |-> toread]

RECURSIVE SkipRows(_, _, _, _, _)
SkipRows(rowDeltas, n, width, i, st) ==
  IF ~(i < n) THEN st
  ELSE SkipRows(rowDeltas, n, width, i + 1, SkipRow(st, ToRead(rowDeltas, i), width))

SkipCycleCount(rowDeltas, n, width) ==
  SkipRows(rowDeltas, n, width, 0, [cycles |-> 0, crtPos |-> 0, prevtoread |-> -1]).cycles

\* The locals of a cycleCount call as it enters its for loop
Locals ==
  [pc |-> "for", i |-> 0, toread |-> 0, crtPos |-> 0, prevtoread |-> -1, cycles |-> 0,
   iters |-> 0]

\* The body of the do-while of Fst taking a word of inputWidth - 1 entries
FstBody_NarrowWord(l, width) ==
  [l EXCEPT !.toread = l.toread - Min(l.toread, width - 1),
            !.cycles = l.cycles + 1,
            !.iters = l.iters + 1]

\* The body of the do-while of FstSpmvArchitecture::cycleCount
FstBody(l, width) ==
  [l EXCEPT !.toread = l.toread - Min(l.toread, width),
            !.cycles = l.cycles + 1,
            !.iters = l.iters + 1]

\* The body of the do-while of SkipEmptyRows without crtPos %= inputWidth
SkipBody_NoWrap(l, width) ==
  LET canread == Min(width - l.crtPos, l.toread)
  IN [l EXCEPT !.crtPos = l.crtPos + canread,
               !.cycles = l.cycles + 1,
               !.toread = l.toread - canread,
               !.iters = l.iters + 1]

\* The body of the do-while of SkipEmptyRowsArchitecture::cycleCount
SkipBody(l, width) ==
  LET canread == Min(width - l.crtPos, l.toread)
  IN [l EXCEPT !.crtPos = (l.crtPos + canread) % width,
               !.cycles = l.cycles + 1,
               !.toread = l.toread - canread,
               !.iters = l.iters + 1]

\* while (toread > 0); and, once it fails, i++ of the for loop
WhileTest(l) ==
  IF l.toread > 0 THEN l ELSE [l EXCEPT !.pc = "for", !.i = l.i + 1]

\* The for loop of Fst from its test to the do-while
FstHead(l, rowDeltas) ==
  [l EXCEPT !.toread = ToRead(rowDeltas, l.i), !.pc = "do", !.iters = 0]

\* The for loop of SkipEmptyRows from its test to the continue or the do-while
SkipHead(l, rowDeltas) ==
  LET toread == ToRead(rowDeltas, l.i)
  IN IF toread = 0 /\ l.prevtoread = 0 THEN [l EXCEPT !.i = l.i + 1]
     ELSE [l EXCEPT !.toread = toread,
                    !.cycles = IF toread = 0 THEN l.cycles + 1 ELSE l.cycles,
                    !.prevtoread = toread,
                    !.pc = "do",
                    !.iters = 0]

\* The virtual call
CycleCount(p, rowDeltas, n, width) ==
  CASE p = "Fst" -> FstCycleCount(rowDeltas, n, width)
    [] p = "SkipEmptyRows" -> SkipCycleCount(rowDeltas, n, width)
    [] OTHER -> SimpleCycleCount(rowDeltas, n, width)

Policies == {"Simple", "Fst", "SkipEmptyRows"}

\* The row deltas of a block whose rows hold the counts k[1], k[2], ...
RECURSIVE Cumulative(_)
Cumulative(k) ==
  IF k = <<>> THEN <<>>
  ELSE LET front == Cumulative(SubSeq(k, 1, Len(k) - 1))
       IN Append(front, (IF front = <<>> THEN 0 ELSE front[Len(front)]) + k[Len(k)])

(***************************************************************************)
(* SimpleSpmvArchitectureSpace                                             *)
(***************************************************************************)
DefaultCacheSizeR == Range(1024, 4096, 512)
DefaultInputWidthR == Range(8, 100, 8)
DefaultNumPipesR == Range(1, 6, 1)

\* The enumerator's fields as one value
Space(c, i, p, l) == [cacheSizeR |-> c, inputWidthR |-> i, numPipesR |-> p, last |-> l]

\* The three-range constructor and the default constructor
SpaceConstructed(numPipesRange, inputWidthRange, cacheSizeRange) ==
  Space(cacheSizeRange, inputWidthRange, numPipesRange, FALSE)

SpaceDefault == Space(DefaultCacheSizeR, DefaultInputWidthR, DefaultNumPipesR, FALSE)

\* new T(cacheSize, inputWidth, numPipes): the constructor stores its arguments
NewArchitecture(_cacheSize, _inputWidth, _numPipes) ==
  [cacheSize |-> _cacheSize, inputWidth |-> _inputWidth, numPipes |-> _numPipes]

\* restart() that leaves the termination flag as it is
restartOp_KeepsLast(s) ==
  Space(RangeRestart(s.cacheSizeR), RangeRestart(s.inputWidthR),
        RangeRestart(s.numPipesR), s.last)

restartOp(s) ==
  Space(RangeRestart(s.cacheSizeR), RangeRestart(s.inputWidthR),
        RangeRestart(s.numPipesR), FALSE)

\* doNext that ends the sweep when inputWidthR wraps, without looking at numPipesR
doNextOp_EndsEarly(s) ==
  IF s.last THEN [space |-> s, result |-> <<>>]
  ELSE
    LET res == NewArchitecture(s.cacheSizeR.crt, s.inputWidthR.crt, s.numPipesR.crt)
        c == RangeInc(s.cacheSizeR)
        i == IF at_start(c) THEN RangeInc(s.inputWidthR) ELSE s.inputWidthR
        p == IF at_start(c) /\ at_start(i) THEN RangeInc(s.numPipesR) ELSE s.numPipesR
        l == IF at_start(c) /\ at_start(i) THEN TRUE ELSE s.last
    IN [space |-> Space(c, i, p, l), result |-> <<res>>]

\* doNext that advances inputWidthR first and carries into cacheSizeR
doNextOp_InputWidthFastest(s) ==
  IF s.last THEN [space |-> s, result |-> <<>>]
  ELSE
    LET res == NewArchitecture(s.cacheSizeR.crt, s.inputWidthR.crt, s.numPipesR.crt)
        i == RangeInc(s.inputWidthR)
        c == IF at_start(i) THEN RangeInc(s.cacheSizeR) ELSE s.cacheSizeR
        p == IF at_start(c) /\ at_start(i) THEN RangeInc(s.numPipesR) ELSE s.numPipesR
        l == IF at_start(c) /\ at_start(i) /\ at_start(p) THEN TRUE ELSE s.last
    IN [space |-> Space(c, i, p, l), result |-> <<res>>]

\* doNext without if (last) return nullptr
doNextOp_IgnoresLast(s) ==
  LET res == NewArchitecture(s.cacheSizeR.crt, s.inputWidthR.crt, s.numPipesR.crt)
      c == RangeInc(s.cacheSizeR)
      i == IF at_start(c) THEN RangeInc(s.inputWidthR) ELSE s.inputWidthR
      p == IF at_start(c) /\ at_start(i) THEN RangeInc(s.numPipesR) ELSE s.numPipesR
      l == IF at_start(c) /\ at_start(i) /\ at_start(p) THEN TRUE ELSE s.last
  IN [space |-> Space(c, i, p, l), result |-> <<res>>]

\* doNext that advances cacheSizeR twice
doNextOp_StepsTwice(s) ==
  IF s.last THEN [space |-> s, result |-> <<>>]
  ELSE
    LET res == NewArchitecture(s.cacheSizeR.crt, s.inputWidthR.crt, s.numPipesR.crt)
        c == RangeInc(RangeInc(s.cacheSizeR))
        i == IF at_start(c) THEN RangeInc(s.inputWidthR) ELSE s.inputWidthR
        p == IF at_start(c) /\ at_start(i) THEN RangeInc(s.numPipesR) ELSE s.numPipesR
        l == IF at_start(c) /\ at_start(i) /\ at_start(p) THEN TRUE ELSE s.last
    IN [space |-> Space(c, i, p, l), result |-> <<res>>]

\* doNext: the enumerator after the call, and what the call returns
doNextOp(s) ==
  IF s.last THEN [space |-> s, result |-> <<>>]
  ELSE
    LET res == NewArchitecture(s.cacheSizeR.crt, s.inputWidthR.crt, s.numPipesR.crt)
        c == RangeInc(s.cacheSizeR)
        i == IF at_start(c) THEN RangeInc(s.inputWidthR) ELSE s.inputWidthR
        p == IF at_start(c) /\ at_start(i) THEN RangeInc(s.numPipesR) ELSE s.numPipesR
        l == IF at_start(c) /\ at_start(i) /\ at_start(p) THEN TRUE ELSE s.last
    IN [space |-> Space(c, i, p, l), result |-> <<res>>]

\* doNext that never carries: after ++cacheSizeR it returns
After_NoCarry(pc, cond) ==
  CASE pc = "test" -> (IF cond THEN "ret" ELSE "new")
    [] pc = "new" -> "incC"
    [] pc = "incC" -> "ret"
    [] pc = "incI" -> (IF cond THEN "incP" ELSE "ret")
    [] pc = "incP" -> (IF cond THEN "setLast" ELSE "ret")
    [] pc = "setLast" -> "ret"

\* The statement of doNext that follows the one at pc, cond being the value of
\* the condition tested there: last at "test", at_start() after an increment
After(pc, cond) ==
  CASE pc = "test" -> (IF cond THEN "ret" ELSE "new")
    [] pc = "new" -> "incC"
    [] pc = "incC" -> (IF cond THEN "incI" ELSE "ret")
    [] pc = "incI" -> (IF cond THEN "incP" ELSE "ret")
    [] pc = "incP" -> (IF cond THEN "setLast" ELSE "ret")
    [] pc = "setLast" -> "ret"

ThisSpace == Space(cacheSizeR, inputWidthR, numPipesR, last)

SpaceSize == RangeLen(cacheSizeR) * RangeLen(inputWidthR) * RangeLen(numPipesR)

\* A freshly constructed enumerator over the ranges of this one
FreshSpace ==
  SpaceConstructed(Range(numPipesR.start, numPipesR.end, numPipesR.step),
                   Range(inputWidthR.start, inputWidthR.end, inputWidthR.step),
                   Range(cacheSizeR.start, cacheSizeR.end, cacheSizeR.step))

\* The ranges of the enumerator that two callers share
RaceRanges == {Range(1, e, 1) : e \in 1..MaxRaceEnd}

\* The values a range holds
RangeValues(r) == {r.start + k * r.step : k \in 0..(RangeLen(r) - 1)}

\* Every architecture of the design space
Product ==
  {NewArchitecture(c, i, p) : c \in RangeValues(cacheSizeR), i \in RangeValues(inputWidthR),
                              p \in RangeValues(numPipesR)}

\* The ranges a design space is built from
Ranges ==
  {Range(s, e, t) : s \in 1..MaxStart, e \in 1..(MaxStart + MaxSpan), t \in 1..MaxStep}

ValidRanges == {r \in Ranges : r.start <= r.end /\ r.end <= r.start + MaxSpan}

(***************************************************************************)
(* SimpleSpmvArchitecture: preprocess and the metric queries               *)
(***************************************************************************)
IntMax == 2147483647

IntMin == -IntMax - 1

\* A square matrix of order n by the positions <<row, column>> (from 0) of its
\* nonzeros; Eigen's default-constructed matrix is empty
Matrix(n, nz) == [n |-> n, nz |-> nz]

EmptyMatrix == Matrix(0, {})

nonZeros(m) == Cardinality(m.nz)

\* The n row counts of matrix m restricted to the columns lo .. hi - 1
RowCounts(m, lo, hi) ==
  [r \in 1..m.n |-> Cardinality({c \in lo..(hi - 1) : <<r - 1, c>> \in m.nz})]

\* The nonzeros of matrix m in the columns lo .. hi - 1, at their positions in m
ColumnSlice(m, lo, hi) == {e \in m.nz : lo <= e[2] /\ e[2] < hi}

\* Every range as wide as the others: the columns past the last multiple of
\* pipes are in no partition
do_partition_DropsRemainder(m, pipes) ==
  [k \in 1..pipes |->
     LET lo == (k - 1) * (m.n \div pipes)
         hi == k * (m.n \div pipes)
     IN [lo |-> lo, hi |-> hi, rows |-> RowCounts(m, lo, hi), nz |-> ColumnSlice(m, lo, hi)]]

\* do_partition: pipes contiguous column ranges, the last one taking the remainder
do_partition(m, pipes) ==
  [k \in 1..pipes |->
     LET lo == (k - 1) * (m.n \div pipes)
         hi == IF k = pipes THEN m.n ELSE k * (m.n \div pipes)
     IN [lo |-> lo, hi |-> hi, rows |-> RowCounts(m, lo, hi), nz |-> ColumnSlice(m, lo, hi)]]

\* The blocks of a partition: runs of consecutive rows, a run closed when the
\* next row would take it past cap nonzeros; a row on its own may exceed cap
\* A run closed only once it is past cap: the row that overflows it stays in it
RECURSIVE BlockRows_ClosesLate(_, _, _, _)
BlockRows_ClosesLate(rows, cur, acc, cap) ==
  IF rows = <<>> THEN (IF cur = <<>> THEN <<>> ELSE <<cur>>)
  ELSE IF cur # <<>> /\ acc > cap
       THEN <<cur>> \o BlockRows_ClosesLate(rows, <<>>, 0, cap)
       ELSE BlockRows_ClosesLate(Tail(rows), Append(cur, Head(rows)), acc + Head(rows), cap)

RECURSIVE BlockRows(_, _, _, _)
BlockRows(rows, cur, acc, cap) ==
  IF rows = <<>> THEN (IF cur = <<>> THEN <<>> ELSE <<cur>>)
  ELSE IF cur # <<>> /\ acc + Head(rows) > cap
       THEN <<cur>> \o BlockRows(rows, <<>>, 0, cap)
       ELSE BlockRows(Tail(rows), Append(cur, Head(rows)), acc + Head(rows), cap)

\* Whether cycleCount comes back: with inputWidth < 1 the do-while of Fst never
\* drains a nonempty row, and that of SkipEmptyRows divides by zero
CycleCountReturns(p, rowDeltas, n, width) ==
  \/ width >= 1
  \/ p = "SkipEmptyRows" /\ n = 0
  \/ p # "SkipEmptyRows" /\ \A i \in 0..(n - 1) : ToRead(rowDeltas, i) <= 0

\* do_blocking: one BlockingResult per block of the partition
do_blocking(p, part, cap, width) ==
  LET blocks == BlockRows(part.rows, <<>>, 0, cap)
  IN [b \in 1..Len(blocks) |->
        [n |-> Len(blocks[b]),
         totalCycles |-> CycleCount(p, Cumulative(blocks[b]), Len(blocks[b]), width)]]

do_blocking_returns(p, part, cap, width) ==
  LET blocks == BlockRows(part.rows, <<>>, 0, cap)
  IN \A b \in 1..Len(blocks) :
       CycleCountReturns(p, Cumulative(blocks[b]), Len(blocks[b]), width)

RECURSIVE Flatten(_)
Flatten(ss) == IF ss = <<>> THEN <<>> ELSE Head(ss) \o Flatten(Tail(ss))

\* The comparison reversed: max_element then finds the smallest
TotalCyclesLess_Reversed(a, b) == b.totalCycles < a.totalCycles

\* The lambda handed to std::max_element
TotalCyclesLess(a, b) == a.totalCycles < b.totalCycles

\* std::max_element over a non-empty vector: the index of the first largest
RECURSIVE MaxElementFrom(_, _, _)
MaxElementFrom(s, largest, first) ==
  IF first > Len(s) THEN largest
  ELSE MaxElementFrom(s, IF TotalCyclesLess(s[largest], s[first]) THEN first ELSE largest,
                      first + 1)

max_element(s) == MaxElementFrom(s, 1, 2)

\* (double)cacheSize * (double)inputWidth / 512.0 * 2.0 for operands >= 0: the
\* product is exact below 2^53 and the two scalings by powers of two are exact,
\* so the double is cacheSize * inputWidth / 256. BramsWhole is its integer
\* part, computed from cacheSize = 256 * q + r without leaving 32 bits;
\* BramsFits is whether that part is an int
BramsCarry(c, w) == ((c % 256) * w) \div 256

BramsFits(c, w) == w = 0 \/ (c \div 256) <= (IntMax - BramsCarry(c, w)) \div w

\* brams without the factor 2: cacheSize * inputWidth / 512
BramsWhole_NoDoubling(c, w) == (c \div 512) * w + ((c % 512) * w) \div 512

BramsWhole(c, w) == (c \div 256) * w + BramsCarry(c, w)

\* What a call returned: a value (value / per as a double), nothing (void), an
\* error, or no return at all
NoAnswer == [query |-> "none", kind |-> "void", value |-> 0, per |-> 1, pre |-> FALSE]

Answer(q, k, x, d) ==
  [query |-> q, kind |-> k, value |-> x, per |-> d, pre |-> (phase = "preprocessed")]

\* What a read through the end iterator of an empty vector may yield
Garbage == {-1, 0, 1}

\* The parameters an architecture is constructed with
CacheSizes == 0..MaxParam \cup {2048, IntMax}
InputWidths == 0..MaxParam \cup {48, 512}
NumPipes == 0..MaxParam

Matrices ==
  {Matrix(n, nz) : n \in 0..MaxOrder, nz \in SUBSET ((0..(MaxOrder - 1)) \X (0..(MaxOrder - 1)))}

ValidMatrices ==
  {m \in Matrices : m.nz \subseteq ((0..(m.n - 1)) \X (0..(m.n - 1))) /\ nonZeros(m) <= MaxNnz}

(***************************************************************************)
(* cask::DokMatrix and cask::CsrMatrix (SparseMatrix.hpp)                  *)
(***************************************************************************)
\* DokMatrix{...}: a square matrix from its n * n values row by row; only the
\* nonzero values are stored, under their <<row, column>> (from 0)
DokMatrix(n, pattern) ==
  LET cells == {e \in (0..(n - 1)) \X (0..(n - 1)) : pattern[e[1] * n + e[2] + 1] # 0}
  IN [n |-> n,
      nnzs |-> Cardinality(cells),
      dok |-> [e \in cells |-> pattern[e[1] * n + e[2] + 1]]]

\* The matrix of the test CsrToFromDok
CsrToFromDokPattern == <<2, 1, 1, 1,  1, 1, 0, 0,  1, 0, 1, 0,  1, 0, 0, 1>>

\* The values of an entry of a pattern
DokValues == {0, 1, 2}

RECURSIVE Ascending(_)
Ascending(S) ==
  IF S = {} THEN <<>>
  ELSE LET least == CHOOSE x \in S : \A y \in S : x <= y
       IN <<least>> \o Ascending(S \ {least})

\* The columns of the stored entries of row i, in ascending order
RowColumns(d, i) == Ascending({j \in 0..(d.n - 1) : <<i, j>> \in DOMAIN d.dok})

\* CsrMatrix(dok): row pointers, and column index and value of every stored
\* entry row by row
CsrMatrix(d) ==
  LET counts == [i \in 1..d.n |-> Len(RowColumns(d, i - 1))]
      colInd == Flatten([i \in 1..d.n |-> RowColumns(d, i - 1)])
      rowOf == Flatten([i \in 1..d.n |-> [j \in 1..counts[i] |-> i - 1]])
  IN [n |-> d.n,
      nnzs |-> Len(colInd),
      rowPtr |-> <<0>> \o Cumulative(counts),
      colInd |-> colInd,
      values |-> [k \in 1..Len(colInd) |-> d.dok[<<rowOf[k], colInd[k]>>]]]

\* The positions in colInd and values of the entries of row i
RowEntries(c, i) == (c.rowPtr[i + 1] + 1) .. c.rowPtr[i + 2]

\* toDok() that loses the first entry of every row
toDok_SkipsRowStart(c) ==
  LET at == {ik \in (0..(c.n - 1)) \X (1..Len(c.colInd)) :
               ik[2] \in RowEntries(c, ik[1]) \ {c.rowPtr[ik[1] + 1] + 1}}
      cells == {<<ik[1], c.colInd[ik[2]]>> : ik \in at}
  IN [n |-> c.n,
      nnzs |-> Cardinality(cells),
      dok |-> [e \in cells |->
                 c.values[CHOOSE k \in RowEntries(c, e[1]) : c.colInd[k] = e[2]]]]

\* toDok(): every entry of every row stored under its <<row, column>>
toDok(c) ==
  LET at == {ik \in (0..(c.n - 1)) \X (1..Len(c.colInd)) : ik[2] \in RowEntries(c, ik[1])}
      cells == {<<ik[1], c.colInd[ik[2]]>> : ik \in at}
  IN [n |-> c.n,
      nnzs |-> Cardinality(cells),
      dok |-> [e \in cells |->
                 c.values[CHOOSE k \in RowEntries(c, e[1]) : c.colInd[k] = e[2]]]]

\* The matrices handed to do_partition
StageMatrices ==
  {Matrix(n, nz) : n \in 0..MaxStageOrder,
                   nz \in {z \in SUBSET ((0..(MaxStageOrder - 1)) \X (0..(MaxStageOrder - 1))) :
                             Cardinality(z) <= MaxNnz}}

ValidStageMatrices ==
  {m \in StageMatrices : m.nz \subseteq ((0..(m.n - 1)) \X (0..(m.n - 1)))}

\* No architecture is being modelled
ArchIdle ==
  /\ cacheSize = 2048
  /\ numPipes = 1
  /\ mat = EmptyMatrix
  /\ partitions = <<>>
  /\ input = EmptyMatrix
  /\ phase = "unbuilt"
  /\ answer = NoAnswer

\* No cycleCount call is being modelled
CycleIdle ==
  /\ policy = "Simple"
  /\ inputWidth = 1
  /\ v = <<>>
  /\ size = 0
  /\ cycles = <<>>

\* No enumerator is being modelled
SpaceIdle ==
  /\ cacheSizeR = DefaultCacheSizeR
  /\ inputWidthR = DefaultInputWidthR
  /\ numPipesR = DefaultNumPipesR
  /\ last = FALSE
  /\ result = <<>>
  /\ calls = 0
  /\ returned = 0
  /\ before = "never"
  /\ fresh = [space |-> SpaceDefault, result |-> <<>>]

\* Neither do_partition nor do_blocking is being modelled
StageIdle ==
  /\ partitioned = <<>>
  /\ blocked = <<>>
  /\ pipe = -1

Callers == {"a", "b"}

\* No caller is inside next()
RaceIdle ==
  /\ pcOf = [t \in Callers |-> "idle"]
  /\ held = [t \in Callers |-> <<>>]
  /\ out = <<>>
  /\ overlapped = FALSE

\* No conversion is being modelled
DokIdle ==
  /\ dokA = DokMatrix(0, <<>>)
  /\ csrA = <<>>
  /\ back = <<>>

\* No cycleCount call is being followed through its loops
LoopIdle == loop = [Locals EXCEPT !.pc = "none"]

LaterIdle == StageIdle /\ RaceIdle /\ DokIdle /\ LoopIdle

SpaceInit ==
  /\ \E s \in {SpaceDefault} \cup
              {SpaceConstructed(p, i, c) : p \in ValidRanges, i \in ValidRanges, c \in ValidRanges} :
       /\ cacheSizeR = s.cacheSizeR
       /\ inputWidthR = s.inputWidthR
       /\ numPipesR = s.numPipesR
       /\ last = s.last
  /\ result = <<>>
  /\ calls = 0
  /\ returned = 0
  /\ before = "never"
  /\ fresh = [space |-> FreshSpace, result |-> <<>>]
  /\ CycleIdle
  /\ ArchIdle
  /\ LaterIdle

\* next(): one call of doNext
doNext ==
  /\ calls < SpaceSize + MaxPastEnd
  /\ LET r == doNextOp(ThisSpace) IN
       /\ cacheSizeR' = r.space.cacheSizeR
       /\ inputWidthR' = r.space.inputWidthR
       /\ numPipesR' = r.space.numPipesR
       /\ last' = r.space.last
       /\ result' = r.result
       /\ returned' = IF r.result = <<>> THEN returned ELSE returned + 1
  /\ calls' = calls + 1
  /\ fresh' = doNextOp(fresh.space)
  /\ UNCHANGED <<before, cycleVars, archVars, laterVars>>

restart ==
  /\ LET s == restartOp(ThisSpace) IN
       /\ cacheSizeR' = s.cacheSizeR
       /\ inputWidthR' = s.inputWidthR
       /\ numPipesR' = s.numPipesR
       /\ last' = s.last
  /\ before' = IF calls = 0 THEN "none"
               ELSE IF calls < SpaceSize THEN "partial"
               ELSE IF calls = SpaceSize THEN "full" ELSE "past"
  /\ calls' = 0
  /\ returned' = 0
  /\ result' = <<>>
  /\ fresh' = [space |-> FreshSpace, result |-> <<>>]
  /\ UNCHANGED <<cycleVars, archVars, laterVars>>

SpaceNext == doNext \/ restart

SpecSpace == SpaceInit /\ [][SpaceNext]_vars

(***************************************************************************)
(* One sweep: next() called again and again on one enumerator, restart()   *)
(* never                                                                   *)
(***************************************************************************)
\* next(): one call of doNext, the architecture it returns kept in out
next ==
  /\ calls < SpaceSize + MaxPastEnd
  /\ LET r == doNextOp(ThisSpace) IN
       /\ cacheSizeR' = r.space.cacheSizeR
       /\ inputWidthR' = r.space.inputWidthR
       /\ numPipesR' = r.space.numPipesR
       /\ last' = r.space.last
       /\ result' = r.result
       /\ returned' = IF r.result = <<>> THEN returned ELSE returned + 1
       /\ out' = out \o r.result
  /\ calls' = calls + 1
  /\ fresh' = doNextOp(fresh.space)
  /\ UNCHANGED <<before, pcOf, held, overlapped, cycleVars, archVars, exceptRace>>

SweepNext == next

SpecSweep == SpaceInit /\ [][SweepNext]_vars

\* The caller keeps calling next()
FairSweep == SpecSweep /\ WF_vars(next)

(***************************************************************************)
(* One call of cycleCount on a block                                       *)
(***************************************************************************)
CycleInit ==
  /\ policy \in Policies
  /\ inputWidth \in 1..MaxWidth
  /\ \E k \in [1..MaxRows -> 0..MaxRowNnz] : v = Cumulative(k)
  /\ size \in 0..MaxRows
  /\ cycles = <<>>
  /\ SpaceIdle
  /\ ArchIdle
  /\ LaterIdle

\* cycleCount(v, size, inputWidth) of the architecture's class
cycleCount ==
  /\ cycles = <<>>
  /\ cycles' = <<CycleCount(policy, v, size, inputWidth)>>
  /\ UNCHANGED <<policy, inputWidth, v, size, spaceVars, archVars, laterVars>>

CycleNext == cycleCount

SpecCycle == CycleInit /\ [][CycleNext]_vars

(***************************************************************************)
(* One architecture: constructed, preprocessed, queried                    *)
(***************************************************************************)
\* Before the architecture is constructed; the caller holds a matrix
ArchInit ==
  /\ input \in ValidMatrices
  /\ policy = "Simple"
  /\ inputWidth = 1
  /\ cacheSize = 2048
  /\ numPipes = 1
  /\ mat = EmptyMatrix
  /\ partitions = <<>>
  /\ phase = "unbuilt"
  /\ answer = NoAnswer
  /\ v = <<>>
  /\ size = 0
  /\ cycles = <<>>
  /\ SpaceIdle
  /\ LaterIdle

\* SimpleSpmvArchitecture(_cacheSize, _inputWidth, _numPipes), or the same
\* constructor of a derived class: the arguments are stored as given
construct ==
  /\ phase = "unbuilt"
  /\ policy' \in Policies
  /\ \E _cacheSize \in CacheSizes, _inputWidth \in InputWidths, _numPipes \in NumPipes :
       /\ cacheSize' = _cacheSize
       /\ inputWidth' = _inputWidth
       /\ numPipes' = _numPipes
  /\ phase' = "constructed"
  /\ answer' = [NoAnswer EXCEPT !.query = "construct"]
  /\ UNCHANGED <<mat, partitions, input, v, size, cycles, spaceVars, laterVars>>

\* preprocess(mat): partition, block every partition, store the results
preprocess ==
  /\ phase \in {"constructed", "preprocessed"}
  /\ IF numPipes <= 0
     THEN /\ answer' = Answer("preprocess", "InvalidConfiguration", 0, 1)
          /\ UNCHANGED <<mat, partitions, phase>>
     ELSE LET parts == do_partition(input, numPipes)
          IN IF \A k \in 1..numPipes : do_blocking_returns(policy, parts[k], cacheSize, inputWidth)
             THEN /\ mat' = input
                  /\ partitions' =
                       Flatten([k \in 1..numPipes |->
                                  do_blocking(policy, parts[k], cacheSize, inputWidth)])
                  /\ phase' = "preprocessed"
                  /\ answer' = [NoAnswer EXCEPT !.query = "preprocess"]
             ELSE /\ phase' = "lost"
                  /\ answer' = [NoAnswer EXCEPT !.query = "preprocess", !.kind = "none"]
                  /\ UNCHANGED <<mat, partitions>>
  /\ UNCHANGED <<policy, inputWidth, cacheSize, numPipes, input, v, size, cycles, spaceVars, laterVars>>

\* getEstimatedClockCycles(): on an empty vector max_element returns end(), and
\* res->totalCycles reads through it
getEstimatedClockCycles ==
  /\ phase \in {"constructed", "preprocessed"}
  /\ IF partitions = <<>>
     THEN \/ \E g \in Garbage : answer' = Answer("getEstimatedClockCycles", "value", g, 1)
          \/ answer' = Answer("getEstimatedClockCycles", "crash", 0, 1)
     ELSE answer' = Answer("getEstimatedClockCycles", "value",
                           partitions[max_element(partitions)].totalCycles, 1)
  /\ UNCHANGED <<policy, inputWidth, cacheSize, numPipes, mat, partitions, input, phase,
                 v, size, cycles, spaceVars, laterVars>>

\* getGFlopsCount(): 2 * mat.nonZeros() / 1E9
getGFlopsCount ==
  /\ phase \in {"constructed", "preprocessed"}
  /\ answer' = Answer("getGFlopsCount", "value", 2 * nonZeros(mat), 1000000000)
  /\ UNCHANGED <<policy, inputWidth, cacheSize, numPipes, mat, partitions, input, phase,
                 v, size, cycles, spaceVars, laterVars>>

\* getResourceUsage(): brams as an int; a double that is no int converts to
\* whatever the build yields
getResourceUsage ==
  /\ phase \in {"constructed", "preprocessed"}
  /\ IF BramsFits(cacheSize, inputWidth)
     THEN answer' = Answer("getResourceUsage", "value", BramsWhole(cacheSize, inputWidth), 1)
     ELSE \E x \in {IntMin, IntMax} : answer' = Answer("getResourceUsage", "value", x, 1)
  /\ UNCHANGED <<policy, inputWidth, cacheSize, numPipes, mat, partitions, input, phase,
                 v, size, cycles, spaceVars, laterVars>>

ArchNext ==
  construct \/ preprocess \/ getGFlopsCount \/ getResourceUsage \/ getEstimatedClockCycles

SpecArch == ArchInit /\ [][ArchNext]_vars

(***************************************************************************)
(* do_partition, then do_blocking on each partition in turn                *)
(***************************************************************************)
StageInit ==
  /\ input \in ValidStageMatrices
  /\ numPipes \in NumPipes
  /\ cacheSize \in CacheSizes
  /\ policy \in Policies
  /\ inputWidth \in 1..MaxWidth
  /\ partitioned = <<>>
  /\ blocked = <<>>
  /\ pipe = -1
  /\ mat = EmptyMatrix
  /\ partitions = <<>>
  /\ phase = "unbuilt"
  /\ answer = NoAnswer
  /\ v = <<>>
  /\ size = 0
  /\ cycles = <<>>
  /\ SpaceIdle
  /\ RaceIdle
  /\ DokIdle
  /\ LoopIdle

\* do_partition(mat, numPipes)
partition ==
  /\ pipe = -1
  /\ answer = NoAnswer
  /\ IF numPipes <= 0
     THEN /\ answer' = Answer("do_partition", "InvalidConfiguration", 0, 1)
          /\ UNCHANGED <<partitioned, pipe>>
     ELSE /\ partitioned' = do_partition(input, numPipes)
          /\ pipe' = 0
          /\ answer' = [NoAnswer EXCEPT !.query = "do_partition"]
  /\ UNCHANGED <<blocked, policy, inputWidth, v, size, cycles, cacheSize, numPipes, mat,
                 partitions, input, phase, spaceVars, exceptStage>>

\* do_blocking(partition, cacheSize, inputWidth) on the next partition
blocking ==
  /\ pipe >= 0
  /\ pipe < numPipes
  /\ pipe' = pipe + 1
  /\ blocked' = [rows |-> BlockRows(partitioned[pipe + 1].rows, <<>>, 0, cacheSize),
                 results |-> do_blocking(policy, partitioned[pipe + 1], cacheSize, inputWidth)]
  /\ answer' = [NoAnswer EXCEPT !.query = "do_blocking"]
  /\ UNCHANGED <<partitioned, policy, inputWidth, v, size, cycles, cacheSize, numPipes, mat,
                 partitions, input, phase, spaceVars, exceptStage>>

StageNext == partition \/ blocking

SpecStage == StageInit /\ [][StageNext]_vars

(***************************************************************************)
(* Two callers of next() on one enumerator: doNext statement by statement  *)
(***************************************************************************)
RaceInit ==
  /\ \E p \in RaceRanges, i \in RaceRanges, c \in RaceRanges :
       LET s == SpaceConstructed(p, i, c)
       IN /\ cacheSizeR = s.cacheSizeR
          /\ inputWidthR = s.inputWidthR
          /\ numPipesR = s.numPipesR
          /\ last = s.last
  /\ result = <<>>
  /\ calls = 0
  /\ returned = 0
  /\ before = "never"
  /\ fresh = [space |-> FreshSpace, result |-> <<>>]
  /\ RaceIdle
  /\ CycleIdle
  /\ ArchIdle
  /\ StageIdle
  /\ DokIdle
  /\ LoopIdle

\* A caller enters next()
enter(t) ==
  /\ pcOf[t] = "idle"
  /\ calls < MaxRaceCalls
  /\ calls' = calls + 1
  /\ pcOf' = [pcOf EXCEPT ![t] = "test"]
  /\ held' = [held EXCEPT ![t] = <<>>]
  /\ overlapped' = (overlapped \/ \E u \in Callers \ {t} : pcOf[u] # "idle")
  /\ UNCHANGED <<cacheSizeR, inputWidthR, numPipesR, last, result, returned, before, fresh,
                 out, cycleVars, archVars, exceptRace>>

\* if (last) return nullptr;
testLast(t) ==
  /\ pcOf[t] = "test"
  /\ pcOf' = [pcOf EXCEPT ![t] = After("test", last)]
  /\ UNCHANGED <<cacheSizeR, inputWidthR, numPipesR, last, result, calls, returned, before,
                 fresh, held, out, overlapped, cycleVars, archVars, exceptRace>>

\* T* result = new T(cacheSizeR.crt, inputWidthR.crt, numPipesR.crt);
newResult(t) ==
  /\ pcOf[t] = "new"
  /\ held' = [held EXCEPT ![t] =
                <<NewArchitecture(cacheSizeR.crt, inputWidthR.crt, numPipesR.crt)>>]
  /\ pcOf' = [pcOf EXCEPT ![t] = After("new", TRUE)]
  /\ UNCHANGED <<cacheSizeR, inputWidthR, numPipesR, last, result, calls, returned, before,
                 fresh, out, overlapped, cycleVars, archVars, exceptRace>>

\* ++cacheSizeR; if (cacheSizeR.at_start())
incCacheSize(t) ==
  /\ pcOf[t] = "incC"
  /\ cacheSizeR' = RangeInc(cacheSizeR)
  /\ pcOf' = [pcOf EXCEPT ![t] = After("incC", at_start(cacheSizeR'))]
  /\ UNCHANGED <<inputWidthR, numPipesR, last, result, calls, returned, before,
                 fresh, held, out, overlapped, cycleVars, archVars, exceptRace>>

\* ++inputWidthR; if (inputWidthR.at_start())
incInputWidth(t) ==
  /\ pcOf[t] = "incI"
  /\ inputWidthR' = RangeInc(inputWidthR)
  /\ pcOf' = [pcOf EXCEPT ![t] = After("incI", at_start(inputWidthR'))]
  /\ UNCHANGED <<cacheSizeR, numPipesR, last, result, calls, returned, before,
                 fresh, held, out, overlapped, cycleVars, archVars, exceptRace>>

\* ++numPipesR; if (numPipesR.at_start())
incNumPipes(t) ==
  /\ pcOf[t] = "incP"
  /\ numPipesR' = RangeInc(numPipesR)
  /\ pcOf' = [pcOf EXCEPT ![t] = After("incP", at_start(numPipesR'))]
  /\ UNCHANGED <<cacheSizeR, inputWidthR, last, result, calls, returned, before,
                 fresh, held, out, overlapped, cycleVars, archVars, exceptRace>>

\* last = true;
setLast(t) ==
  /\ pcOf[t] = "setLast"
  /\ last' = TRUE
  /\ pcOf' = [pcOf EXCEPT ![t] = After("setLast", TRUE)]
  /\ UNCHANGED <<cacheSizeR, inputWidthR, numPipesR, result, calls, returned, before,
                 fresh, held, out, overlapped, cycleVars, archVars, exceptRace>>

\* return nullptr; or return result;
return(t) ==
  /\ pcOf[t] = "ret"
  /\ result' = held[t]
  /\ out' = out \o held[t]
  /\ returned' = returned + Len(held[t])
  /\ pcOf' = [pcOf EXCEPT ![t] = "idle"]
  /\ UNCHANGED <<cacheSizeR, inputWidthR, numPipesR, last, calls, before,
                 fresh, held, overlapped, cycleVars, archVars, exceptRace>>

RaceNext ==
  \E t \in Callers :
    \/ enter(t)
    \/ testLast(t)
    \/ newResult(t)
    \/ incCacheSize(t)
    \/ incInputWidth(t)
    \/ incNumPipes(t)
    \/ setLast(t)
    \/ return(t)

SpecRace == RaceInit /\ [][RaceNext]_vars

(***************************************************************************)
(* A DokMatrix converted to a CsrMatrix and back                           *)
(***************************************************************************)
DokInit ==
  /\ \/ \E n \in 0..MaxDokOrder : \E pattern \in [1..(n * n) -> DokValues] :
          dokA = DokMatrix(n, pattern)
     \/ dokA = DokMatrix(4, CsrToFromDokPattern)
  /\ csrA = <<>>
  /\ back = <<>>
  /\ SpaceIdle
  /\ CycleIdle
  /\ ArchIdle
  /\ StageIdle
  /\ RaceIdle
  /\ LoopIdle

\* cask::CsrMatrix a{dokA};
convertToCsr ==
  /\ csrA = <<>>
  /\ csrA' = <<CsrMatrix(dokA)>>
  /\ UNCHANGED <<dokA, back, spaceVars, cycleVars, archVars, exceptDok>>

\* a.toDok()
convertToDok ==
  /\ csrA # <<>>
  /\ back = <<>>
  /\ back' = <<toDok(csrA[1])>>
  /\ UNCHANGED <<dokA, csrA, spaceVars, cycleVars, archVars, exceptDok>>

DokNext == convertToCsr \/ convertToDok

SpecDok == DokInit /\ [][DokNext]_vars

(***************************************************************************)
(* One call of cycleCount of Fst or SkipEmptyRows, iteration by iteration  *)
(***************************************************************************)
LoopInit ==
  /\ policy \in {"Fst", "SkipEmptyRows"}
  /\ inputWidth \in 1..MaxWidth
  /\ \E k \in [1..MaxRows -> 0..MaxRowNnz] : v = Cumulative(k)
  /\ size \in 0..MaxRows
  /\ cycles = <<>>
  /\ loop = Locals
  /\ SpaceIdle
  /\ ArchIdle
  /\ StageIdle
  /\ RaceIdle
  /\ DokIdle

\* for (int i = 0; i < size; i++) { ... up to the do-while
forHead ==
  /\ loop.pc = "for"
  /\ loop.i < size
  /\ loop' = IF policy = "SkipEmptyRows" THEN SkipHead(loop, v) ELSE FstHead(loop, v)
  /\ UNCHANGED <<cycleVars, spaceVars, archVars, exceptLoop>>

\* do { ... } while (toread > 0);  one pass
doWhile ==
  /\ loop.pc = "do"
  /\ loop' = WhileTest(IF policy = "SkipEmptyRows" THEN SkipBody(loop, inputWidth)
                       ELSE FstBody(loop, inputWidth))
  /\ UNCHANGED <<cycleVars, spaceVars, archVars, exceptLoop>>

\* return cycles;
returnCycles ==
  /\ loop.pc = "for"
  /\ ~(loop.i < size)
  /\ loop' = [loop EXCEPT !.pc = "done"]
  /\ cycles' = <<loop.cycles>>
  /\ UNCHANGED <<policy, inputWidth, v, size, spaceVars, archVars, exceptLoop>>

LoopNext == forHead \/ doWhile \/ returnCycles

SpecLoop == LoopInit /\ [][LoopNext]_vars

\* The call is not held up: a statement that can run does run
FairLoop == SpecLoop /\ WF_vars(LoopNext)

(***************************************************************************)
(* Claims about cycleCount                                                 *)
(***************************************************************************)
\* The nonzero count of row i (from 0) of the block
Nnz(i) == ToRead(v, i)

CeilDiv(a, b) == (a + b - 1) \div b

Max(a, b) == IF a < b THEN b ELSE a

\* The sum over rows 0 .. n - 1 of max(1, ceil(k_i / inputWidth))
RECURSIVE SumRowCycles(_)
SumRowCycles(n) ==
  IF n = 0 THEN 0 ELSE SumRowCycles(n - 1) + Max(1, CeilDiv(Nnz(n - 1), inputWidth))

SkipCalled == cycles # <<>> /\ policy = "SkipEmptyRows"

\* cycleCount of the first n <= size rows of the block under SkipEmptyRows; for
\* n = size it is what the call returned
SkipCyclesUpTo(n) == IF n = size THEN cycles[1] ELSE SkipCycleCount(v, n, inputWidth)

\* Row j is empty and its predecessor is not an empty row
FirstEmpty(j) == Nnz(j) = 0 /\ (j = 0 \/ Nnz(j - 1) > 0)

C6_FstSumOfRowCeilings ==
  (cycles # <<>> /\ policy \in {"Simple", "Fst"}) =>
     /\ cycles[1] = SumRowCycles(size)
     /\ ((\A i \in 0..(size - 1) : Nnz(i) = 0) => cycles[1] = size)
     /\ ((size = 1 /\ Nnz(0) > 0) => cycles[1] = CeilDiv(Nnz(0), inputWidth))
     /\ (size = 0 => cycles[1] = 0)

C6_Witness ==
  /\ cycles # <<>> /\ policy = "Fst" /\ size >= 3
  /\ \E i \in 0..(size - 1) : Nnz(i) = 0
  /\ \E i \in 0..(size - 1) : Nnz(i) > inputWidth /\ Nnz(i) % inputWidth # 0
  /\ cycles[1] > size

\* cycles, crtPos and prevtoread of SkipEmptyRows after the first n rows
SkipStateUpTo(n) ==
  SkipRows(v, n, inputWidth, 0, [cycles |-> 0, crtPos |-> 0, prevtoread |-> -1])

\* The block with one more empty row right after row j
WithEmptyRowAfter(j) == SubSeq(v, 1, j + 1) \o <<At(v, j)>> \o SubSeq(v, j + 2, size)

\* The block with every run of empty rows cut down to its first row
RECURSIVE RunsOfOne(_)
RunsOfOne(n) ==
  IF n = 0 THEN <<>>
  ELSE IF n >= 2 /\ Nnz(n - 1) = 0 /\ Nnz(n - 2) = 0 THEN RunsOfOne(n - 1)
       ELSE Append(RunsOfOne(n - 1), At(v, n - 1))

\* C15: under SkipEmptyRows an empty row right after an empty row is charged no
\* cycle and leaves crtPos and prevtoread as they were; a block with one more
\* empty row right after an empty row has the same cycleCount; and so has the
\* block with every run of empty rows cut down to a single empty row.
C15_RepeatedEmptyRowIsFree ==
  SkipCalled =>
    /\ \A j \in 1..(size - 1) :
         (Nnz(j) = 0 /\ Nnz(j - 1) = 0) => SkipStateUpTo(j + 1) = SkipStateUpTo(j)
    /\ \A j \in 0..(size - 1) :
         Nnz(j) = 0 => SkipCycleCount(WithEmptyRowAfter(j), size + 1, inputWidth) = cycles[1]
    /\ SkipCycleCount(RunsOfOne(size), Len(RunsOfOne(size)), inputWidth) = cycles[1]

\* Two empty rows between two rows that are not, crtPos being inside a word
C15_Witness ==
  /\ SkipCalled /\ size = 4
  /\ Nnz(0) > 0 /\ Nnz(1) = 0 /\ Nnz(2) = 0 /\ Nnz(3) > 0
  /\ SkipStateUpTo(2).crtPos # 0
  /\ Len(RunsOfOne(size)) = 3

(***************************************************************************)
(* Claims about the architecture's metric queries                          *)
(***************************************************************************)
\* C7: once preprocess has stored at least one BlockingResult,
\* getEstimatedClockCycles() returns a number that is at least the totalCycles of
\* every stored result and is the totalCycles of one of them, and the call leaves
\* the stored results as they were.
C7_EstimateIsMaxTotalCycles ==
  [][(answer'.query = "getEstimatedClockCycles" /\ phase = "preprocessed"
        /\ partitions # <<>>) =>
       /\ answer'.kind = "value" /\ answer'.per = 1
       /\ \A i \in 1..Len(partitions) : answer'.value >= partitions[i].totalCycles
       /\ \E i \in 1..Len(partitions) : answer'.value = partitions[i].totalCycles
       /\ partitions' = partitions]_vars

C7_Witness ==
  /\ answer.query = "getEstimatedClockCycles" /\ answer.pre /\ answer.kind = "value"
  /\ Len(partitions) >= 2
  /\ partitions[1].totalCycles < answer.value
  /\ partitions[Len(partitions)].totalCycles < answer.value

\* C8: an architecture whose cacheSize, inputWidth or numPipes is not positive
\* is never produced: every constructed architecture holds three positive
\* parameters.
C8_NonPositiveConfigurationRejected ==
  phase # "unbuilt" => (cacheSize > 0 /\ inputWidth > 0 /\ numPipes > 0)

MetricQueries == {"getEstimatedClockCycles", "getGFlopsCount", "getResourceUsage"}

\* C9: a metric query made before preprocess has run does not return a value.
C9_QueryBeforePreprocessGivesNoValue ==
  (answer.query \in MetricQueries /\ ~answer.pre) => answer.kind # "value"

\* x is the integer part of c * w / 256 (which is c * w / 512 * 2), c, w > 0
IsFloorOfProductOver256(x, c, w) ==
  /\ x >= ((c % 256) * w) \div 256
  /\ (x - ((c % 256) * w) \div 256) % w = 0
  /\ (x - ((c % 256) * w) \div 256) \div w = c \div 256

\* C10 as claimed: for every positive cacheSize and inputWidth getResourceUsage()
\* returns brams = floor(cacheSize * inputWidth / 512 * 2); 384 for 2048 and 48.
C10_BramsIsFloorForAllPositive ==
  (answer.query = "getResourceUsage" /\ cacheSize > 0 /\ inputWidth > 0 /\ numPipes > 0) =>
     /\ IsFloorOfProductOver256(answer.value, cacheSize, inputWidth)
     /\ ((cacheSize = 2048 /\ inputWidth = 48) => answer.value = 384)

\* cacheSize * inputWidth / 512 * 2 is below 2^31, stated within 32 bits
BramsBelowTwoTo31(c, w) ==
  \/ c \div 256 < IntMax \div w
  \/ c \div 256 = IntMax \div w /\ ((c % 256) * w) \div 256 <= IntMax % w

\* C10 as amended: for every positive cacheSize and inputWidth with
\* cacheSize * inputWidth / 512 * 2 < 2^31, getResourceUsage() returns
\* brams = floor(cacheSize * inputWidth / 512 * 2), from the configuration alone
\* (before and after preprocess); 384 for 2048 and 48.
C10_BramsIsFloorWithinInt ==
  (answer.query = "getResourceUsage" /\ cacheSize > 0 /\ inputWidth > 0 /\ numPipes > 0
     /\ BramsBelowTwoTo31(cacheSize, inputWidth)) =>
     /\ answer.kind = "value" /\ answer.per = 1
     /\ IsFloorOfProductOver256(answer.value, cacheSize, inputWidth)
     /\ ((cacheSize = 2048 /\ inputWidth = 48) => answer.value = 384)

C10_Witness ==
  /\ answer.query = "getResourceUsage" /\ answer.pre
  /\ cacheSize = 2048 /\ inputWidth = 48 /\ answer.value = 384

(***************************************************************************)
(* Claims about the enumerator                                             *)
(***************************************************************************)
IsDefaultSpace ==
  /\ RangeRestart(cacheSizeR) = DefaultCacheSizeR
  /\ RangeRestart(inputWidthR) = DefaultInputWidthR
  /\ RangeRestart(numPipesR) = DefaultNumPipesR

\* C1: over the default ranges a fresh enumerator returns an architecture on each
\* of its first 7 * 12 * 6 = 504 next() calls and nullptr on the 505th (and on
\* every later one), so exactly 504 architectures are returned.
C1_DefaultSweepIs504 ==
  (IsDefaultSpace /\ before = "never") =>
     /\ returned = (IF calls <= 7 * 12 * 6 THEN calls ELSE 7 * 12 * 6)
     /\ (calls >= 1 => ((result = <<>>) <=> (calls > 7 * 12 * 6)))

C1_Witness ==
  /\ IsDefaultSpace /\ before = "never"
  /\ calls = 505 /\ returned = 504 /\ result = <<>>

\* C2: after restart(), whatever number of next() calls preceded it, the k-th
\* following next() returns what the k-th next() of a freshly constructed
\* enumerator over the same ranges returns, and leaves the same cursors and flag.
C2_RestartReplaysSequence ==
  before # "never" =>
     /\ ThisSpace = fresh.space
     /\ result = fresh.result

C2_Witness ==
  /\ before = "past" /\ SpaceSize > 1
  /\ calls = SpaceSize + 1 /\ returned = SpaceSize /\ result = <<>>

\* The k-th triple (from 0) of the product with cacheSize fastest, numPipes slowest
Triple(k) ==
  NewArchitecture(
    cacheSizeR.start + (k % RangeLen(cacheSizeR)) * cacheSizeR.step,
    inputWidthR.start
      + ((k \div RangeLen(cacheSizeR)) % RangeLen(inputWidthR)) * inputWidthR.step,
    numPipesR.start
      + (k \div (RangeLen(cacheSizeR) * RangeLen(inputWidthR))) * numPipesR.step)

\* C3: a next() call of a sweep returns the cursors as they were before the
\* call, which are the next triple in the order cacheSize fastest, inputWidth
\* second, numPipes slowest; it advances cacheSize, advances inputWidth exactly
\* when cacheSize is back at its start, advances numPipes exactly when inputWidth
\* is then back at its start too, and sets the termination flag exactly when
\* numPipes is then back at its start.
C3_NestingOrder ==
  [][(calls' = calls + 1 /\ ~last) =>
       /\ result' = <<NewArchitecture(cacheSizeR.crt, inputWidthR.crt, numPipesR.crt)>>
       /\ result' = <<Triple(returned)>>
       /\ cacheSizeR' = RangeInc(cacheSizeR)
       /\ inputWidthR' =
            (IF at_start(cacheSizeR') THEN RangeInc(inputWidthR) ELSE inputWidthR)
       /\ numPipesR' =
            (IF at_start(cacheSizeR') /\ at_start(inputWidthR')
             THEN RangeInc(numPipesR) ELSE numPipesR)
       /\ last' = (at_start(cacheSizeR') /\ at_start(inputWidthR')
                    /\ at_start(numPipesR'))
       /\ last' = (returned' = SpaceSize)]_vars

C3_Witness ==
  /\ RangeLen(cacheSizeR) >= 2 /\ RangeLen(inputWidthR) >= 2 /\ RangeLen(numPipesR) >= 2
  /\ last /\ returned = SpaceSize /\ result # <<>>

(***************************************************************************)
(* Claims about the partitioner and the blocker                            *)
(***************************************************************************)
\* The columns of partition k
Columns(k) == partitioned[k].lo .. (partitioned[k].hi - 1)

\* C11: do_partition with numPipes >= 1 returns exactly numPipes partitions
\* whose column ranges follow one another from 0 to n without gap or overlap,
\* every range but the last n div numPipes wide and the last taking the rest;
\* every nonzero of the matrix is in exactly one partition, in its own row.
C11_PartitionsCoverColumnsOnce ==
  pipe >= 0 =>
    LET n == input.n
        width == input.n \div numPipes
    IN /\ numPipes >= 1
       /\ Len(partitioned) = numPipes
       /\ partitioned[1].lo = 0
       /\ partitioned[numPipes].hi = n
       /\ \A k \in 1..(numPipes - 1) :
            /\ partitioned[k].hi = partitioned[k + 1].lo
            /\ partitioned[k].hi - partitioned[k].lo = width
       /\ partitioned[numPipes].hi - partitioned[numPipes].lo = n - (numPipes - 1) * width
       /\ \A j, k \in 1..numPipes : j # k => Columns(j) \cap Columns(k) = {}
       /\ UNION {Columns(k) : k \in 1..numPipes} = 0..(n - 1)
       /\ \A e \in input.nz : Cardinality({k \in 1..numPipes : e \in partitioned[k].nz}) = 1
       /\ \A k \in 1..numPipes :
            /\ partitioned[k].nz \subseteq input.nz
            /\ \A e \in partitioned[k].nz : e[2] \in Columns(k)
            /\ \A r \in 1..n :
                 partitioned[k].rows[r] =
                   Cardinality({e \in partitioned[k].nz : e[1] = r - 1})

\* Two pipes over a matrix of odd order, nonzeros on both sides
C11_Witness ==
  /\ pipe >= 0
  /\ numPipes = 2
  /\ input.n = 3
  /\ partitioned[1].nz # {}
  /\ partitioned[2].nz # {}

RECURSIVE Total(_)
Total(rows) == IF rows = <<>> THEN 0 ELSE Head(rows) + Total(Tail(rows))

\* C12: do_blocking puts every row of the partition in exactly one block, in
\* the original order: the blocks one after the other are the partition's rows.
\* A block of several rows holds at most cacheSize nonzeros, a block is closed
\* exactly when the next row would take it past cacheSize, and a row with more
\* than cacheSize nonzeros is a block of its own.
C12_BlocksAreRunsWithinCache ==
  pipe >= 1 =>
    LET bs == blocked.rows
    IN /\ Flatten(bs) = partitioned[pipe].rows
       /\ Len(blocked.results) = Len(bs)
       /\ \A b \in 1..Len(bs) :
            /\ bs[b] # <<>>
            /\ blocked.results[b].n = Len(bs[b])
            /\ Len(bs[b]) > 1 => Total(bs[b]) <= cacheSize
            /\ \A i \in 1..Len(bs[b]) : bs[b][i] > cacheSize => Len(bs[b]) = 1
       /\ \A b \in 1..(Len(bs) - 1) : Total(bs[b]) + Head(bs[b + 1]) > cacheSize

\* A partition cut into an oversized row on its own and a block of several rows
C12_Witness ==
  /\ pipe >= 1
  /\ \E b \in 1..Len(blocked.rows) :
       Len(blocked.rows[b]) = 1 /\ blocked.rows[b][1] > cacheSize
  /\ \E b \in 1..Len(blocked.rows) : Len(blocked.rows[b]) >= 2

(***************************************************************************)
(* Claims about two callers of one enumerator                              *)
(***************************************************************************)
\* The results held by calls that have not returned yet
InFlight == Cardinality({t \in Callers : held[t] # <<>> /\ pcOf[t] # "idle"})

\* C13: next() is safe only when the calls are kept apart. As long as no call
\* has begun while another was under way, the architectures returned are the
\* sequential sweep, in order and without repetition, and the flag is set only
\* when the sweep is complete; once two calls interleave their statements, a
\* state is reachable where an architecture was returned twice, another never,
\* and the flag is set.
C13_SequentialCallsSweepInOrder ==
  ~overlapped =>
     /\ out = [k \in 1..Len(out) |-> Triple(k - 1)]
     /\ Len(out) = returned
     /\ returned + InFlight <= SpaceSize
     /\ last => returned + InFlight = SpaceSize

\* Both callers are back, the flag is set, one architecture came out twice and
\* another one not at all
C13_Witness ==
  /\ overlapped
  /\ \A t \in Callers : pcOf[t] = "idle"
  /\ last
  /\ \E j, k \in 1..Len(out) : j < k /\ out[j] = out[k]
  /\ \E a \in Product : \A k \in 1..Len(out) : out[k] # a

(***************************************************************************)
(* Claims about DokMatrix and CsrMatrix                                    *)
(***************************************************************************)
\* C14: a DokMatrix taken to a CsrMatrix and back by toDok() is the matrix it
\* was: the same order, the same count of nonzeros and the same stored entries.
\* The CsrMatrix in between has n + 1 row pointers that start at 0, never
\* decrease and end at the count of nonzeros.
C14_CsrToFromDokIsIdentity ==
  /\ csrA # <<>> =>
       LET a == csrA[1]
       IN /\ Len(a.rowPtr) = dokA.n + 1
          /\ a.rowPtr[1] = 0
          /\ a.rowPtr[dokA.n + 1] = dokA.nnzs
          /\ \A i \in 1..dokA.n : a.rowPtr[i] <= a.rowPtr[i + 1]
          /\ Len(a.colInd) = dokA.nnzs
          /\ Len(a.values) = dokA.nnzs
  /\ back # <<>> =>
       /\ back[1].dok = dokA.dok
       /\ back[1] = dokA

\* The matrix of the test CsrToFromDok, taken to compressed rows and back
C14_Witness ==
  /\ dokA = DokMatrix(4, CsrToFromDokPattern)
  /\ dokA.nnzs = 10
  /\ back # <<>>

(***************************************************************************)
(* Claims about the loops of cycleCount                                    *)
(***************************************************************************)
\* The loops return what the call returns
LoopReturnsCycleCount ==
  loop.pc = "done" => cycles = <<CycleCount(policy, v, size, inputWidth)>>

\* C16: in cycleCount of SkipEmptyRows with inputWidth >= 1, crtPos is within
\* 0 .. inputWidth - 1 at every point of the loops and is carried from row to
\* row; a pass of the do-while takes min(inputWidth - crtPos, toread) entries,
\* at least 1 for a row that is not empty, and moves crtPos on by as many modulo
\* inputWidth; when row i is drained crtPos is v[i] mod inputWidth.
C16_CrtPosIsConsumedModWidth ==
  /\ [](policy = "SkipEmptyRows" => loop.crtPos \in 0..(inputWidth - 1))
  /\ [][(policy = "SkipEmptyRows" /\ loop.pc = "for") => loop'.crtPos = loop.crtPos]_vars
  /\ [][(policy = "SkipEmptyRows" /\ loop.pc = "do") =>
          LET canread == loop.toread - loop'.toread
          IN /\ canread = Min(inputWidth - loop.crtPos, loop.toread)
             /\ Nnz(loop.i) > 0 => canread >= 1
             /\ loop'.cycles = loop.cycles + 1
             /\ loop'.crtPos = (loop.crtPos + canread) % inputWidth
             /\ loop'.pc = "for" => loop'.crtPos = At(v, loop.i) % inputWidth]_vars

\* A row that ran over the end of a word has just been drained, the rows before
\* it having left crtPos inside a word
C16_Witness ==
  /\ policy = "SkipEmptyRows"
  /\ loop.pc = "for"
  /\ loop.i >= 2
  /\ loop.iters >= 2
  /\ loop.crtPos # 0
  /\ At(v, loop.i - 2) % inputWidth # 0

\* C19: cycleCount of Fst and of SkipEmptyRows returns for every size >= 0,
\* non-decreasing row deltas and inputWidth >= 1: every pass of the do-while
\* entered with toread > 0 leaves toread smaller, and the do-while of a row with
\* k nonzeros makes at most max(1, k) passes.
C19_CycleCountTerminates ==
  /\ <>(loop.pc = "done")
  /\ [][(loop.pc = "do" /\ loop.toread > 0) =>
          /\ loop'.toread < loop.toread
          /\ loop'.toread >= 0]_vars
  /\ [][loop.pc = "do" => loop'.iters <= Max(1, Nnz(loop.i))]_vars

\* A call has returned whose last row took several passes of the do-while
C19_Witness ==
  /\ loop.pc = "done"
  /\ size >= 3
  /\ loop.iters >= 2
  /\ Nnz(size - 1) > loop.iters
  /\ \E j \in 0..(size - 1) : Nnz(j) = 0

(***************************************************************************)
(* Claims about one sweep of the enumerator                                *)
(***************************************************************************)
\* next() has returned nullptr
Ended == calls > 0 /\ result = <<>>

\* C17: over ranges with start <= end and step >= 1, a caller that keeps calling
\* next() and never restart() is eventually returned nullptr, after no more
\* architectures than the design space holds; from the call that sets the flag
\* on, every next() returns nullptr and leaves the three cursors and the flag
\* as they are.
C17_SweepEndsAndStaysEnded ==
  /\ <>Ended
  /\ [](returned <= SpaceSize)
  /\ [](Ended => last)
  /\ [][last => /\ calls' = calls + 1
                 /\ Ended'
                 /\ ThisSpace' = ThisSpace
                 /\ returned' = returned
                 /\ out' = out]_vars

\* The second next() after the last architecture of a space of several
C17_Witness ==
  /\ Ended
  /\ last
  /\ SpaceSize > 1
  /\ returned = SpaceSize
  /\ calls = SpaceSize + 2

\* The architectures returned so far
Returned == {out[k] : k \in 1..Len(out)}

\* C18: a sweep returns every architecture of the product of the three ranges
\* exactly once: what it has returned so far is without repetition and within
\* the product, the flag is set exactly when as many architectures have been
\* returned as the product of the range lengths, and then all of the product has
\* been returned and the three cursors are back at their start values.
C18_SweepIsTheProductOnce ==
  /\ Len(out) = returned
  /\ Cardinality(Returned) = Len(out)
  /\ Returned \subseteq Product
  /\ Cardinality(Product) = SpaceSize
  /\ last <=> returned = SpaceSize
  /\ last =>
       /\ Returned = Product
       /\ at_start(cacheSizeR)
       /\ at_start(inputWidthR)
       /\ at_start(numPipesR)

\* A sweep over three ranges of several values each is complete
C18_Witness ==
  /\ last
  /\ RangeLen(cacheSizeR) >= 2 /\ RangeLen(inputWidthR) >= 2 /\ RangeLen(numPipesR) >= 3
  /\ Len(out) = SpaceSize
  /\ Returned = Product

====
